---------------------------- MODULE Spec2Model ----------------------------
(***************************************************************************)
(* Model of summarization-api-playground/src/main.ts: the summarization    *)
(* controller.  initializeApplication probes the host capability, then     *)
(* attaches listeners that debounce qualifying events (text input, change  *)
(* of type/format/length) with a 1000ms timer; the timer callback creates  *)
(* a session, summarizes the input text, destroys the session and writes   *)
(* the summary to the output region.                                       *)
(*                                                                         *)
(* The event loop is single threaded: every action below is one task of    *)
(* the loop (an event handler, a timer callback up to its first await, or  *)
(* the continuation of a callback after a host promise settles).           *)
(***************************************************************************)
EXTENDS Naturals, Sequences, FiniteSets

VARIABLES
  apiPresent,          \* window.ai !== undefined && window.ai.summarizer !== undefined
  initPc,              \* position of initializeApplication
  canSummarize,        \* initializeApplication's canSummarize.available ("" before it is read)
  unavailableDialog,   \* summarizationUnavailableDialog.style.display = 'block'
  unsupportedDialog,   \* summarizationUnsupportedDialog.style.display = 'block'
  listeners,           \* the four listeners of lines 91-105 are attached
  inputText,           \* inputTextArea.value
  summaryType,         \* summaryTypeSelect.value
  summaryFormat,       \* summaryFormatSelect.value
  summaryLength,       \* summaryLengthSelect.value
  characterCount,      \* characterCountSpan.textContent
  tokensExceeded,      \* characterCountSpan has class 'tokens-exceeded'
  exceededShown,       \* characterCountExceededSpan lacks class 'hidden'
  output,              \* output.textContent
  timeout,             \* the closure variable timeout (NoTimer = undefined)
  pendingTimers,       \* timers set and neither fired nor cleared: [id, elapsed, event]
  nextTimer,           \* the id the next setTimeout returns
  tasks,               \* the timer callbacks that have started, in firing order
  sessions,            \* the host's sessions, in creation order
  initCalls,           \* the host calls initializeApplication has made, in order
  resolved,            \* the callbacks whose summarize resolved, in that order
  events,              \* number of user events so far
  bursts,              \* number of runs of qualifying events less than 1000ms apart
  sinceEvent           \* ms since the last qualifying event, capped at DEBOUNCE_MS

vars == << apiPresent, initPc, canSummarize, unavailableDialog,
           unsupportedDialog, listeners, inputText, summaryType, summaryFormat,
           summaryLength, characterCount, tokensExceeded, exceededShown, output,
           timeout, pendingTimers, nextTimer, tasks, sessions, initCalls,
           resolved, events, bursts, sinceEvent >>

domVars == << inputText, summaryType, summaryFormat, summaryLength >>
countVars == << characterCount, tokensExceeded, exceededShown >>
dialogVars == << unavailableDialog, unsupportedDialog >>
timerVars == << timeout, pendingTimers, nextTimer >>
userVars == << events, bursts, sinceEvent >>

(***************************************************************************)
(* Program constants                                                       *)
(***************************************************************************)
MAX_MODEL_CHARS == 4000
DEBOUNCE_MS == 1000

GENERATING == "Generating summary..."
NOT_SUPPORTED == "AI Summarization is not supported"

(***************************************************************************)
(* Bounds of the model                                                     *)
(***************************************************************************)
MaxEvents == 2        \* user events in one behaviour
TickMs == 500         \* granularity of the passage of time

(***************************************************************************)
(* Input domains                                                           *)
(***************************************************************************)
Tiers == {"no", "readily", "after-download"}
Types == {"key-points", "tl;dr"}
Formats == {"plain-text", "markdown"}
Lengths == {"short", "medium"}

Chars10 == "0123456789"
Chars100 == Chars10 \o Chars10 \o Chars10 \o Chars10 \o Chars10
            \o Chars10 \o Chars10 \o Chars10 \o Chars10 \o Chars10
Chars1000 == Chars100 \o Chars100 \o Chars100 \o Chars100 \o Chars100
             \o Chars100 \o Chars100 \o Chars100 \o Chars100 \o Chars100
LimitText == Chars1000 \o Chars1000 \o Chars1000 \o Chars1000
LongText == LimitText \o "x"
Texts == {"", "Hello world", LimitText, LongText}

NoTimer == 0
NoSession == 0

Min(a, b) == IF a < b THEN a ELSE b

\* The downloadProgressListener argument of createSummarizationSession: left
\* out (undefined) or a function.
Undefined == "undefined"
Listeners == {Undefined, "onProgressA", "onProgressB"}

\* The monitor option of a create call: undefined, or a function, given by
\* the event registrations it makes on the AICreateMonitor it is called with.
NoMonitor == [defined |-> FALSE, registers |-> {}]

\* createSummarizationSession always building a monitor.
MonitorAlways(downloadProgressListener) ==
  [defined |-> TRUE,
   registers |-> {<< "downloadprogress", downloadProgressListener >>}]

\* Lines 44-49: the monitor createSummarizationSession passes to create.
Monitor(downloadProgressListener) ==
  IF downloadProgressListener # Undefined
    THEN [defined |-> TRUE,
          registers |-> {<< "downloadprogress", downloadProgressListener >>}]
    ELSE NoMonitor

(***************************************************************************)
(* The host capability                                                     *)
(***************************************************************************)
\* The string session.summarize(text) resolves with, for a session created
\* with the given options.
Summary(type, format, length, text) ==
  "[" \o type \o "," \o format \o "," \o length \o "] " \o text


(***************************************************************************)
(* Initial state: the page is loaded, initializeApplication not yet run    *)
(***************************************************************************)
Init ==
  /\ apiPresent \in BOOLEAN
  /\ initPc = "start"
  /\ canSummarize = ""
  /\ unavailableDialog = FALSE
  /\ unsupportedDialog = FALSE
  /\ listeners = FALSE
  /\ inputText = ""
  /\ summaryType = "key-points"
  /\ summaryFormat = "plain-text"
  /\ summaryLength = "short"
  /\ characterCount = 0
  /\ tokensExceeded = FALSE
  /\ exceededShown = FALSE
  /\ output = ""
  /\ timeout = NoTimer
  /\ pendingTimers = {}
  /\ nextTimer = 1
  /\ tasks = << >>
  /\ sessions = << >>
  /\ initCalls = << >>
  /\ resolved = << >>
  /\ events = 0
  /\ bursts = 0
  /\ sinceEvent = DEBOUNCE_MS

(***************************************************************************)
(* initializeApplication, lines 60-106                                     *)
(***************************************************************************)
\* initializeApplication without the return of line 64: the dialog is shown
\* and the capabilities() query of line 67 is made all the same.
InitializeApplicationNoReturn ==
  /\ initPc = "start"
  /\ unavailableDialog' = ~apiPresent
  /\ initCalls' = Append(initCalls, "capabilities")
  /\ initPc' = "probing"
  /\ UNCHANGED << apiPresent, canSummarize, unsupportedDialog,
                  listeners, domVars, countVars, output, timerVars, tasks,
                  sessions, resolved, userVars >>

\* Lines 61-67: the presence check, and the capabilities() query when present.
InitializeApplication ==
  /\ initPc = "start"
  /\ IF ~apiPresent
       THEN /\ unavailableDialog' = TRUE
            /\ initPc' = "unavailable"
            /\ UNCHANGED initCalls
       ELSE /\ initCalls' = Append(initCalls, "capabilities")
            /\ initPc' = "probing"
            /\ UNCHANGED unavailableDialog
  /\ UNCHANGED << apiPresent, canSummarize, unsupportedDialog,
                  listeners, domVars, countVars, output, timerVars, tasks,
                  sessions, resolved, userVars >>

\* initializeApplication without the return of line 70: the dialog is shown
\* and the listeners are attached all the same.
InitCapabilitiesResolvesNoReturn(tier) ==
  /\ initPc = "probing"
  /\ canSummarize' = tier
  /\ unsupportedDialog' = (tier = "no")
  /\ timeout' = NoTimer
  /\ listeners' = TRUE
  /\ initPc' = "ready"
  /\ UNCHANGED << apiPresent, unavailableDialog, domVars,
                  countVars, output, pendingTimers, nextTimer, tasks, sessions,
                  initCalls, resolved, userVars >>

\* Lines 67-105: capabilities() resolved with the tier the host reports; 'no'
\* shows the unsupported dialog and returns, any other tier attaches the
\* listeners.
InitCapabilitiesResolves(tier) ==
  /\ initPc = "probing"
  /\ canSummarize' = tier
  /\ IF tier = "no"
       THEN /\ unsupportedDialog' = TRUE
            /\ initPc' = "unsupported"
            /\ UNCHANGED << listeners, timeout >>
       ELSE /\ timeout' = NoTimer
            /\ listeners' = TRUE
            /\ initPc' = "ready"
            /\ UNCHANGED unsupportedDialog
  /\ UNCHANGED << apiPresent, unavailableDialog, domVars,
                  countVars, output, pendingTimers, nextTimer, tasks, sessions,
                  initCalls, resolved, userVars >>

(***************************************************************************)
(* scheduleSummarization, lines 74-89: the synchronous part                *)
(***************************************************************************)
\* The qualifying event being handled: what it leaves in the controls, whether
\* it comes less than 1000ms after the previous one, and the run of such
\* events it belongs to.
ThisEvent ==
  [rapid |-> sinceEvent < DEBOUNCE_MS,
   burst |-> IF sinceEvent < DEBOUNCE_MS THEN bursts ELSE bursts + 1,
   text |-> inputText', type |-> summaryType', format |-> summaryFormat',
   length |-> summaryLength']

LogEvent ==
  /\ bursts' = ThisEvent.burst
  /\ sinceEvent' = 0

\* scheduleSummarization with a maximum wait: the new timer keeps the time the
\* timer it replaces has already waited.
ScheduleSummarizationMaxWait ==
  /\ pendingTimers' = {t \in pendingTimers : t.id # timeout}
       \cup {[id |-> nextTimer,
               elapsed |-> IF \E t \in pendingTimers : t.id = timeout
                             THEN (CHOOSE t \in pendingTimers :
                                     t.id = timeout).elapsed
                             ELSE 0,
               event |-> ThisEvent]}
  /\ timeout' = nextTimer
  /\ nextTimer' = nextTimer + 1

\* scheduleSummarization with a guard returning at once on empty text.
ScheduleSummarizationUnlessEmpty ==
  IF inputText' = ""
    THEN UNCHANGED timerVars
    ELSE /\ pendingTimers' = {t \in pendingTimers : t.id # timeout}
              \cup {[id |-> nextTimer, elapsed |-> 0, event |-> ThisEvent]}
         /\ timeout' = nextTimer
         /\ nextTimer' = nextTimer + 1

\* scheduleSummarization without the clearTimeout of line 77.
ScheduleSummarizationNoClear ==
  /\ pendingTimers' = pendingTimers
       \cup {[id |-> nextTimer, elapsed |-> 0, event |-> ThisEvent]}
  /\ timeout' = nextTimer
  /\ nextTimer' = nextTimer + 1

\* Lines 77-78 and 88: clearTimeout(timeout); timeout = setTimeout(..., 1000).
\* clearTimeout of undefined, or of a timer that already fired, does nothing.
ScheduleSummarization ==
  /\ pendingTimers' = {t \in pendingTimers : t.id # timeout}
       \cup {[id |-> nextTimer, elapsed |-> 0, event |-> ThisEvent]}
  /\ timeout' = nextTimer
  /\ nextTimer' = nextTimer + 1

(***************************************************************************)
(* The user's events                                                       *)
(***************************************************************************)
\* The input listener with >= for the > of line 97.
InputEventAtLeast(text) ==
  /\ events < MaxEvents
  /\ text # inputText
  /\ events' = events + 1
  /\ inputText' = text
  /\ UNCHANGED << summaryType, summaryFormat, summaryLength >>
  /\ IF listeners
       THEN /\ characterCount' = Len(text)
            /\ IF Len(text) >= MAX_MODEL_CHARS
                 THEN tokensExceeded' = TRUE /\ exceededShown' = TRUE
                 ELSE tokensExceeded' = FALSE /\ exceededShown' = FALSE
            /\ ScheduleSummarization
            /\ LogEvent
       ELSE UNCHANGED << countVars, timerVars, bursts, sinceEvent >>
  /\ UNCHANGED << apiPresent, initPc, canSummarize, dialogVars,
                  listeners, output, tasks, sessions, initCalls, resolved >>

\* The user edits the text area; with the listener attached, lines 95-105.
InputEvent(text) ==
  /\ events < MaxEvents
  /\ text # inputText
  /\ events' = events + 1
  /\ inputText' = text
  /\ UNCHANGED << summaryType, summaryFormat, summaryLength >>
  /\ IF listeners
       THEN /\ characterCount' = Len(text)
            /\ IF Len(text) > MAX_MODEL_CHARS
                 THEN tokensExceeded' = TRUE /\ exceededShown' = TRUE
                 ELSE tokensExceeded' = FALSE /\ exceededShown' = FALSE
            /\ ScheduleSummarization
            /\ LogEvent
       ELSE UNCHANGED << countVars, timerVars, bursts, sinceEvent >>
  /\ UNCHANGED << apiPresent, initPc, canSummarize, dialogVars,
                  listeners, output, tasks, sessions, initCalls, resolved >>

\* The user picks another type; with the listener attached, line 91.
TypeChangeEvent(value) ==
  /\ events < MaxEvents
  /\ value # summaryType
  /\ events' = events + 1
  /\ summaryType' = value
  /\ UNCHANGED << inputText, summaryFormat, summaryLength >>
  /\ IF listeners
       THEN ScheduleSummarization /\ LogEvent
       ELSE UNCHANGED << timerVars, bursts, sinceEvent >>
  /\ UNCHANGED << apiPresent, initPc, canSummarize, dialogVars,
                  listeners, countVars, output, tasks, sessions, initCalls, resolved >>

\* The user picks another format; with the listener attached, line 92.
FormatChangeEvent(value) ==
  /\ events < MaxEvents
  /\ value # summaryFormat
  /\ events' = events + 1
  /\ summaryFormat' = value
  /\ UNCHANGED << inputText, summaryType, summaryLength >>
  /\ IF listeners
       THEN ScheduleSummarization /\ LogEvent
       ELSE UNCHANGED << timerVars, bursts, sinceEvent >>
  /\ UNCHANGED << apiPresent, initPc, canSummarize, dialogVars,
                  listeners, countVars, output, tasks, sessions, initCalls, resolved >>

\* The user picks another length; with the listener attached, line 93.
LengthChangeEvent(value) ==
  /\ events < MaxEvents
  /\ value # summaryLength
  /\ events' = events + 1
  /\ summaryLength' = value
  /\ UNCHANGED << inputText, summaryType, summaryFormat >>
  /\ IF listeners
       THEN ScheduleSummarization /\ LogEvent
       ELSE UNCHANGED << timerVars, bursts, sinceEvent >>
  /\ UNCHANGED << apiPresent, initPc, canSummarize, dialogVars,
                  listeners, countVars, output, tasks, sessions, initCalls, resolved >>

(***************************************************************************)
(* The environment: time                                                   *)
(***************************************************************************)
\* TickMs pass.  A timer is due once DEBOUNCE_MS have elapsed since it was
\* set; elapsed times are not counted beyond that.
Tick ==
  /\ \/ sinceEvent < DEBOUNCE_MS
     \/ \E t \in pendingTimers : t.elapsed < DEBOUNCE_MS
  /\ sinceEvent' = Min(sinceEvent + TickMs, DEBOUNCE_MS)
  /\ pendingTimers' =
       {[t EXCEPT !.elapsed = Min(@ + TickMs, DEBOUNCE_MS)] : t \in pendingTimers}
  /\ UNCHANGED << apiPresent, initPc, canSummarize, dialogVars,
                  listeners, domVars, countVars, output, timeout, nextTimer,
                  tasks, sessions, initCalls, resolved, events, bursts >>

(***************************************************************************)
(* The timer callback, lines 78-88, one action per stretch between awaits  *)
(***************************************************************************)
\* The callbacks that have started and not ended.
InFlight == {i \in DOMAIN tasks : tasks[i].pc \notin {"done", "rejected"}}

\* The callback run at once, as with a setTimeout without the delay of line 88.
TimerFiresEarly(t) ==
  /\ t \in pendingTimers
  /\ pendingTimers' = pendingTimers \ {t}
  /\ output' = GENERATING
  /\ tasks' = Append(tasks,
       [timer |-> t.id, event |-> t.event, pc |-> "capabilities",
        type |-> summaryType,
        format |-> summaryFormat, length |-> summaryLength,
        unsupported |-> FALSE, error |-> "", session |-> NoSession,
        text |-> "", summary |-> "", calls |-> << "capabilities" >>,
        inFlight |-> InFlight])
  /\ UNCHANGED << apiPresent, initPc, canSummarize, dialogVars,
                  listeners, domVars, countVars, timeout, nextTimer, sessions,
                  initCalls, resolved, userVars >>

\* The callback relying on the tier found at initialization: create is called
\* at the firing without a query of its own.
TimerFiresNoQuery(t) ==
  /\ t \in pendingTimers
  /\ t.elapsed >= DEBOUNCE_MS
  /\ pendingTimers' = pendingTimers \ {t}
  /\ output' = GENERATING
  /\ tasks' = Append(tasks,
       [timer |-> t.id, event |-> t.event, pc |-> "create",
        type |-> summaryType,
        format |-> summaryFormat, length |-> summaryLength,
        unsupported |-> FALSE, error |-> "", session |-> NoSession,
        text |-> "", summary |-> "", calls |-> << "create" >>,
        inFlight |-> InFlight])
  /\ UNCHANGED << apiPresent, initPc, canSummarize, dialogVars,
                  listeners, domVars, countVars, timeout, nextTimer, sessions,
                  initCalls, resolved, userVars >>

\* Lines 79-84 and 39: a due timer fires; the placeholder is shown, the
\* option values are read and createSummarizationSession issues capabilities().
TimerFires(t) ==
  /\ t \in pendingTimers
  /\ t.elapsed >= DEBOUNCE_MS
  /\ pendingTimers' = pendingTimers \ {t}
  /\ output' = GENERATING
  /\ tasks' = Append(tasks,
       [timer |-> t.id, event |-> t.event, pc |-> "capabilities",
        type |-> summaryType,
        format |-> summaryFormat, length |-> summaryLength,
        unsupported |-> FALSE, error |-> "", session |-> NoSession,
        text |-> "", summary |-> "", calls |-> << "capabilities" >>,
        inFlight |-> InFlight])
  /\ UNCHANGED << apiPresent, initPc, canSummarize, dialogVars,
                  listeners, domVars, countVars, timeout, nextTimer, sessions,
                  initCalls, resolved, userVars >>

\* createSummarizationSession without the throw of line 41: create is called
\* whatever the tier.
TaskCapabilitiesResolvesNoThrow(i, tier) ==
  /\ i \in DOMAIN tasks
  /\ tasks[i].pc = "capabilities"
  /\ tasks' = [tasks EXCEPT ![i].unsupported = (tier = "no"),
                            ![i].calls = Append(@, "create"),
                            ![i].pc = "create"]
  /\ UNCHANGED << apiPresent, initPc, canSummarize, dialogVars,
                  listeners, domVars, countVars, output, timerVars, sessions,
                  initCalls, resolved, userVars >>

\* Lines 39-51: capabilities() resolved inside createSummarizationSession
\* with the tier the host reports now; 'no' throws, any other tier calls
\* create with an undefined monitor (no downloadProgressListener is passed at
\* lines 80-84).
TaskCapabilitiesResolves(i, tier) ==
  /\ i \in DOMAIN tasks
  /\ tasks[i].pc = "capabilities"
  /\ IF tier = "no"
       THEN /\ tasks' = [tasks EXCEPT ![i].unsupported = TRUE,
                                      ![i].error = NOT_SUPPORTED,
                                      ![i].pc = "rejected"]
       ELSE /\ tasks' = [tasks EXCEPT ![i].calls = Append(@, "create"),
                                      ![i].pc = "create"]
  /\ UNCHANGED << apiPresent, initPc, canSummarize, dialogVars,
                  listeners, domVars, countVars, output, timerVars, sessions,
                  initCalls, resolved, userVars >>

\* The callback summarizing the text as it was when its timer was set, which
\* is the text at the firing.
TaskCreateResolvesTextAtFiring(i) ==
  /\ i \in DOMAIN tasks
  /\ tasks[i].pc = "create"
  /\ sessions' = Append(sessions,
       [type |-> tasks[i].type, format |-> tasks[i].format,
        length |-> tasks[i].length, monitor |-> Monitor(Undefined),
        summarized |-> 1, destroyed |-> FALSE])
  /\ tasks' = [tasks EXCEPT ![i].session = Len(sessions) + 1,
                            ![i].text = tasks[i].event.text,
                            ![i].calls = Append(@, "summarize"),
                            ![i].pc = "summarize"]
  /\ UNCHANGED << apiPresent, initPc, canSummarize, dialogVars,
                  listeners, domVars, countVars, output, timerVars, initCalls,
                  resolved, userVars >>

\* Lines 51-52, 80 and 85: create resolved with a new session, made from the
\* options of the create call (lines 80-84 pass no downloadProgressListener);
\* the input text is read now and session.summarize is called with it.
TaskCreateResolves(i) ==
  /\ i \in DOMAIN tasks
  /\ tasks[i].pc = "create"
  /\ sessions' = Append(sessions,
       [type |-> tasks[i].type, format |-> tasks[i].format,
        length |-> tasks[i].length, monitor |-> Monitor(Undefined),
        summarized |-> 1, destroyed |-> FALSE])
  /\ tasks' = [tasks EXCEPT ![i].session = Len(sessions) + 1,
                            ![i].text = inputText,
                            ![i].calls = Append(@, "summarize"),
                            ![i].pc = "summarize"]
  /\ UNCHANGED << apiPresent, initPc, canSummarize, dialogVars,
                  listeners, domVars, countVars, output, timerVars, initCalls,
                  resolved, userVars >>

\* The callback dropping a stale result: the summary is written only when no
\* newer timer has been set since the one that started this callback.
TaskSummarizeResolvesUnlessSuperseded(i) ==
  /\ i \in DOMAIN tasks
  /\ tasks[i].pc = "summarize"
  /\ LET s == sessions[tasks[i].session]
         summary == Summary(s.type, s.format, s.length, tasks[i].text)
     IN  /\ tasks' = [tasks EXCEPT ![i].summary = summary,
                                   ![i].calls = Append(@, "destroy"),
                                   ![i].pc = "done"]
         /\ output' = IF tasks[i].timer = timeout THEN summary ELSE output
  /\ sessions' = [sessions EXCEPT ![tasks[i].session].destroyed = TRUE]
  /\ resolved' = Append(resolved, i)
  /\ UNCHANGED << apiPresent, initPc, canSummarize, dialogVars,
                  listeners, domVars, countVars, timerVars, initCalls,
                  userVars >>

\* The callback with an in-flight guard: only the callback started last
\* writes its summary to the output region.
TaskSummarizeResolvesLatestOnly(i) ==
  /\ i \in DOMAIN tasks
  /\ tasks[i].pc = "summarize"
  /\ LET s == sessions[tasks[i].session]
         summary == Summary(s.type, s.format, s.length, tasks[i].text)
     IN  /\ tasks' = [tasks EXCEPT ![i].summary = summary,
                                   ![i].calls = Append(@, "destroy"),
                                   ![i].pc = "done"]
         /\ output' = IF i = Len(tasks) THEN summary ELSE output
  /\ sessions' = [sessions EXCEPT ![tasks[i].session].destroyed = TRUE]
  /\ resolved' = Append(resolved, i)
  /\ UNCHANGED << apiPresent, initPc, canSummarize, dialogVars,
                  listeners, domVars, countVars, timerVars, initCalls,
                  userVars >>

\* The callback without the session.destroy() of line 86.
TaskSummarizeResolvesNoDestroy(i) ==
  /\ i \in DOMAIN tasks
  /\ tasks[i].pc = "summarize"
  /\ LET s == sessions[tasks[i].session]
         summary == Summary(s.type, s.format, s.length, tasks[i].text)
     IN  /\ tasks' = [tasks EXCEPT ![i].summary = summary, ![i].pc = "done"]
         /\ output' = summary
  /\ resolved' = Append(resolved, i)
  /\ UNCHANGED << apiPresent, initPc, canSummarize, dialogVars,
                  listeners, domVars, countVars, timerVars, sessions,
                  initCalls, userVars >>

\* Lines 85-87: summarize resolved; the session is destroyed and the summary
\* replaces the content of the output region.
TaskSummarizeResolves(i) ==
  /\ i \in DOMAIN tasks
  /\ tasks[i].pc = "summarize"
  /\ LET s == sessions[tasks[i].session]
         summary == Summary(s.type, s.format, s.length, tasks[i].text)
     IN  /\ tasks' = [tasks EXCEPT ![i].summary = summary,
                                   ![i].calls = Append(@, "destroy"),
                                   ![i].pc = "done"]
         /\ output' = summary
  /\ sessions' = [sessions EXCEPT ![tasks[i].session].destroyed = TRUE]
  /\ resolved' = Append(resolved, i)
  /\ UNCHANGED << apiPresent, initPc, canSummarize, dialogVars,
                  listeners, domVars, countVars, timerVars, initCalls,
                  userVars >>

\* The callback with session.destroy() in a finally block: a session whose
\* summarize call rejected is destroyed too.
TaskHostRejectsDestroys(i) ==
  /\ i \in DOMAIN tasks
  /\ tasks[i].pc \in {"create", "summarize"}
  /\ tasks' = [tasks EXCEPT ![i].error = "host: " \o tasks[i].pc,
                            ![i].calls = IF tasks[i].pc = "summarize"
                                           THEN Append(@, "destroy") ELSE @,
                            ![i].pc = "rejected"]
  /\ sessions' = IF tasks[i].pc = "summarize"
                   THEN [sessions EXCEPT ![tasks[i].session].destroyed = TRUE]
                   ELSE sessions
  /\ UNCHANGED << apiPresent, initPc, canSummarize, dialogVars,
                  listeners, domVars, countVars, output, timerVars,
                  initCalls, resolved, userVars >>

\* A callback whose await never returns when the host promise rejects.
TaskHostRejectsHangs(i) ==
  /\ i \in DOMAIN tasks
  /\ tasks[i].pc \in {"create", "summarize"}
  /\ tasks' = [tasks EXCEPT ![i].error = "host: " \o tasks[i].pc,
                            ![i].pc = "hung"]
  /\ UNCHANGED << apiPresent, initPc, canSummarize, dialogVars,
                  listeners, domVars, countVars, output, timerVars, sessions,
                  initCalls, resolved, userVars >>

\* Lines 51, 80 and 85: the create or summarize promise the callback awaits
\* rejects; no try/catch surrounds any await, so the callback ends there with
\* an unhandled rejection.  (capabilities() only reports a tier: the model
\* lets it always resolve.)
TaskHostRejects(i) ==
  /\ i \in DOMAIN tasks
  /\ tasks[i].pc \in {"create", "summarize"}
  /\ tasks' = [tasks EXCEPT ![i].error = "host: " \o tasks[i].pc,
                            ![i].pc = "rejected"]
  /\ UNCHANGED << apiPresent, initPc, canSummarize, dialogVars,
                  listeners, domVars, countVars, output, timerVars, sessions,
                  initCalls, resolved, userVars >>

(***************************************************************************)
(* The specification                                                       *)
(***************************************************************************)
Next ==
  \/ InitializeApplication
  \/ \E tier \in Tiers : InitCapabilitiesResolves(tier)
  \/ \E text \in Texts : InputEvent(text)
  \/ \E value \in Types : TypeChangeEvent(value)
  \/ \E value \in Formats : FormatChangeEvent(value)
  \/ \E value \in Lengths : LengthChangeEvent(value)
  \/ Tick
  \/ \E t \in pendingTimers : TimerFires(t)
  \/ \E i \in 1..MaxEvents, tier \in Tiers : TaskCapabilitiesResolves(i, tier)
  \/ \E i \in 1..MaxEvents : TaskCreateResolves(i)
  \/ \E i \in 1..MaxEvents : TaskSummarizeResolves(i)
  \/ \E i \in 1..MaxEvents : TaskHostRejects(i)

Spec == Init /\ [][Next]_vars

\* The host settles the promise callback i awaits, by resolving or rejecting.
HostSettles(i) ==
  \/ \E tier \in Tiers : TaskCapabilitiesResolves(i, tier)
  \/ TaskCreateResolves(i)
  \/ TaskSummarizeResolves(i)
  \/ TaskHostRejects(i)

\* Every host promise a callback awaits is eventually settled.
FairSpec ==
  /\ Spec
  /\ \A i \in 1..MaxEvents : WF_vars(HostSettles(i))

\* Time passes, and the event loop runs a timer callback that is due.
TimerFairSpec ==
  /\ Spec
  /\ WF_vars(Tick)
  /\ WF_vars(\E t \in pendingTimers : TimerFires(t))

TypeOK ==
  /\ apiPresent \in BOOLEAN
  /\ initPc \in {"start", "probing", "unavailable", "unsupported", "ready"}
  /\ canSummarize \in Tiers \cup {""}
  /\ listeners \in BOOLEAN
  /\ inputText \in Texts
  /\ summaryType \in Types
  /\ summaryFormat \in Formats
  /\ summaryLength \in Lengths
  /\ characterCount \in Nat
  /\ timeout \in 0..MaxEvents
  /\ \A t \in pendingTimers : t.id \in 1..MaxEvents /\ t.elapsed \in 0..DEBOUNCE_MS
  /\ Len(tasks) <= MaxEvents
  /\ Len(sessions) <= Len(tasks)
  /\ events \in 0..MaxEvents
  /\ bursts \in 0..MaxEvents


(***************************************************************************)
(* Properties                                                              *)
(***************************************************************************)
Ended(i) == tasks[i].pc \in {"done", "rejected"}
AliveSessions == {k \in DOMAIN sessions : ~sessions[k].destroyed}
Owners(k) == {i \in DOMAIN tasks : tasks[i].session = k}

\* C1: in every reachable state at most one debounce timer is pending, and
\* it is the one the variable timeout names: scheduleSummarization cancels the
\* previously scheduled timer before it schedules a new one.
C1_AtMostOnePendingTimer ==
  /\ Cardinality(pendingTimers) <= 1
  /\ \A t \in pendingTimers : t.id = timeout

\* A second qualifying event arrived while the first timer was still pending:
\* the first timer is gone without having fired, the second is pending.
C1_Witness ==
  /\ nextTimer = 3
  /\ tasks = << >>
  /\ \E t \in pendingTimers : t.id = 2 /\ t.event.rapid

\* C2: no two summarizations overlap: at most one timer callback is between
\* its start and its end, and at most one session is alive.
C2_NoOverlap ==
  /\ Cardinality(InFlight) <= 1
  /\ Cardinality(AliveSessions) <= 1

\* C3: every session is used by one firing for one summarize call, and has
\* been destroyed by the time that firing's callback ends, whether summarize
\* succeeded or failed.
C3_SessionNeverOutlivesAttempt ==
  /\ \A k \in DOMAIN sessions :
       Cardinality(Owners(k)) = 1 /\ sessions[k].summarized = 1
  /\ \A i \in DOMAIN tasks :
       (Ended(i) /\ tasks[i].session # NoSession)
         => sessions[tasks[i].session].destroyed

\* C4: debounce correctness: a run of qualifying events each less than
\* 1000ms after the previous one results in one summarization, the timer that
\* fires is the one set by the last event of the run, and the options given
\* to create and the text given to summarize are those that event set.
C4_DebounceCorrectness ==
  /\ \A i, j \in DOMAIN tasks :
       i # j => tasks[i].event.burst # tasks[j].event.burst
  /\ \A i \in DOMAIN tasks :
       /\ tasks[i].event.burst = bursts => tasks[i].timer = timeout
       /\ tasks[i].type = tasks[i].event.type
       /\ tasks[i].format = tasks[i].event.format
       /\ tasks[i].length = tasks[i].event.length
       /\ tasks[i].session # NoSession => tasks[i].text = tasks[i].event.text

\* C5: when capabilities() reports 'no' at initialization the unsupported
\* dialog is shown, the unavailable dialog is not, no listener is attached,
\* and whatever the user does later no timer is scheduled, no callback
\* starts, no session is created and the output region stays as it was.
C5_UnsupportedFreezes ==
  canSummarize = "no" =>
    /\ initPc = "unsupported"
    /\ unsupportedDialog
    /\ ~unavailableDialog
    /\ ~listeners
    /\ timeout = NoTimer
    /\ pendingTimers = {}
    /\ tasks = << >>
    /\ sessions = << >>
    /\ initCalls = << "capabilities" >>
    /\ output = ""

\* The unsupported dialog is up and the user has edited the text and changed
\* a selector.
C5_Witness ==
  /\ canSummarize = "no"
  /\ unsupportedDialog
  /\ events = MaxEvents
  /\ inputText # ""
  /\ summaryType # "key-points" \/ summaryFormat # "plain-text"
       \/ summaryLength # "short"

\* C6: when the capability object is undefined, initializeApplication shows
\* the unavailable dialog and returns: capabilities() is never called, the
\* unsupported dialog is never shown, no listener is attached, no timer is
\* scheduled and no session is created.
C6_UnavailableHalts ==
  (~apiPresent /\ initPc # "start") =>
    /\ initPc = "unavailable"
    /\ unavailableDialog
    /\ ~unsupportedDialog
    /\ initCalls = << >>
    /\ canSummarize = ""
    /\ ~listeners
    /\ pendingTimers = {}
    /\ tasks = << >>
    /\ sessions = << >>
    /\ output = ""

\* The unavailable dialog is up and the user has typed all the same.
C6_Witness ==
  /\ ~apiPresent
  /\ unavailableDialog
  /\ events = MaxEvents
  /\ inputText # ""

\* C7: with availability 'readily' and a single qualifying event, the firing
\* calls capabilities, create (with the current option values), summarize
\* (with the current input text) and destroy, in that order, each once; the
\* output region shows the placeholder until then and the summary after.
C7_SingleFiringOrder ==
  (canSummarize = "readily" /\ events = 1 /\ Len(tasks) = 1) =>
    LET t == tasks[1] IN
    /\ t.type = summaryType /\ t.format = summaryFormat
    /\ t.length = summaryLength
    /\ t.pc = "capabilities" => t.calls = << "capabilities" >>
    /\ t.pc = "create" => t.calls = << "capabilities", "create" >>
    /\ t.pc = "summarize" =>
         t.calls = << "capabilities", "create", "summarize" >>
    /\ t.pc # "done" => output = GENERATING
    /\ t.pc \in {"summarize", "done"} =>
         /\ Len(sessions) = 1 /\ t.session = 1
         /\ sessions[1].type = summaryType
         /\ sessions[1].format = summaryFormat
         /\ sessions[1].length = summaryLength
         /\ sessions[1].summarized = 1
         /\ t.text = inputText
    /\ t.pc = "done" =>
         /\ t.calls = << "capabilities", "create", "summarize", "destroy" >>
         /\ sessions[1].destroyed
         /\ output = Summary(summaryType, summaryFormat, summaryLength, inputText)

\* "Hello world" was typed with key-points, plain-text, short selected, the
\* timer fired and the summary is displayed.
C7_Witness ==
  /\ canSummarize = "readily"
  /\ events = 1
  /\ inputText = "Hello world"
  /\ Len(tasks) = 1
  /\ tasks[1].pc = "done"
  /\ sessions = << [type |-> "key-points", format |-> "plain-text",
                    length |-> "short", monitor |-> NoMonitor,
                    summarized |-> 1, destroyed |-> TRUE] >>
  /\ output = "[key-points,plain-text,short] Hello world"

\* C8: summarizing always returns to idle: provided every host promise
\* settles, every timer callback that starts eventually ends, by completion
\* or by an unhandled rejection, and the listeners stay attached, so a new
\* qualifying event schedules a timer as before.
C8_ReturnsToIdle ==
  /\ \A i \in 1..MaxEvents :
       (Len(tasks) >= i) ~> (Len(tasks) >= i /\ Ended(i))
  /\ [](initPc = "ready" => listeners)

\* A callback ended with a rejection; a later event scheduled a timer whose
\* firing started with nothing in flight and ran to completion.
C8_Witness ==
  /\ Len(tasks) = 2
  /\ tasks[1].pc = "rejected"
  /\ tasks[2].inFlight = {}
  /\ tasks[2].pc = "done"
  /\ output = tasks[2].summary

\* The callback j showed the placeholder or its summary after callback i
\* had started.
WroteAfterStartOf(j, i) == j > i \/ j \in tasks[i].inFlight

\* C9: when capabilities() reports 'no' inside createSummarizationSession,
\* the callback ends with the error 'AI Summarization is not supported'
\* having called neither create, summarize nor destroy, and the output region
\* shows the placeholder unless another firing has overwritten it.
C9_NotSupportedAtFiring ==
  \A i \in DOMAIN tasks :
    tasks[i].unsupported =>
      /\ tasks[i].pc = "rejected"
      /\ tasks[i].error = NOT_SUPPORTED
      /\ tasks[i].calls = << "capabilities" >>
      /\ tasks[i].session = NoSession
      /\ \/ output = GENERATING
         \/ \E j \in DOMAIN tasks :
              /\ WroteAfterStartOf(j, i)
              /\ tasks[j].pc = "done"
              /\ output = tasks[j].summary

\* Initialization saw a usable tier, the only firing got 'no': its callback
\* is over and the placeholder is still displayed.
C9_Witness ==
  /\ canSummarize \in {"readily", "after-download"}
  /\ Len(tasks) = 1
  /\ tasks[1].unsupported
  /\ tasks[1].pc = "rejected"
  /\ pendingTimers = {}
  /\ sessions = << >>
  /\ output = GENERATING

\* The position of callback i in the order of resolution (0: not resolved).
ResolvedAt(i) ==
  IF \E n \in DOMAIN resolved : resolved[n] = i
    THEN CHOOSE n \in DOMAIN resolved : resolved[n] = i
    ELSE 0

\* C10: when two cycles were in flight together and both have completed, the
\* output region shows the summary of the one whose summarize resolved last
\* (unless a third firing has written to it since), not of the one that
\* started last.
C10_LastToResolveWins ==
  \A i, j \in DOMAIN tasks :
    (/\ i < j
     /\ i \in tasks[j].inFlight
     /\ tasks[i].pc = "done"
     /\ tasks[j].pc = "done")
    => LET r == IF ResolvedAt(i) > ResolvedAt(j) THEN i ELSE j
       IN  (/\ ResolvedAt(r) = Len(resolved)
            /\ \A k \in DOMAIN tasks \ {i, j} : WroteAfterStartOf(r, k))
           => output = tasks[r].summary

\* Two cycles overlapped, the one started first resolved last, and the
\* displayed summary is its summary, made from other text or options than
\* those of the cycle started last and than those now in the controls.
C10_Witness ==
  /\ Len(tasks) = 2
  /\ 1 \in tasks[2].inFlight
  /\ resolved = << 2, 1 >>
  /\ output = tasks[1].summary
  /\ output # tasks[2].summary
  /\ output # Summary(summaryType, summaryFormat, summaryLength, inputText)

\* C11: the debounce is trailing-edge only: a step that handles a qualifying
\* event starts no callback; a callback starts only when 1000ms have elapsed
\* since the most recent qualifying event, and it belongs to the timer that
\* event set; so there are never more firings than qualifying events, no
\* timer fires twice, and a timer replaced by a later event never fires.
C11_TrailingEdgeOnly ==
  /\ [](/\ Len(tasks) <= nextTimer - 1
        /\ \A i, j \in DOMAIN tasks : i # j => tasks[i].timer # tasks[j].timer
        /\ \A t \in pendingTimers, i \in DOMAIN tasks : tasks[i].timer # t.id)
  /\ [][/\ nextTimer' # nextTimer => tasks' = tasks
        /\ Len(tasks') > Len(tasks) =>
             /\ Len(tasks') = Len(tasks) + 1
             /\ sinceEvent >= DEBOUNCE_MS
             /\ tasks'[Len(tasks')].timer = timeout
             /\ tasks'[Len(tasks')].timer = nextTimer - 1
             /\ tasks'[Len(tasks')].pc = "capabilities"
             /\ output' = GENERATING
             /\ UNCHANGED << domVars, timeout, nextTimer, events >>]_vars

\* Two qualifying events came less than 1000ms apart; the first timer was
\* replaced, and the callback that started is the one of the second timer.
C11_Witness ==
  /\ nextTimer = 3
  /\ Len(tasks) = 1
  /\ tasks[1].timer = 2
  /\ tasks[1].event.rapid
  /\ pendingTimers = {}

\* C12: only the pending timer is cancelable: a step that handles a
\* qualifying event or fires a newer timer changes nothing of a callback
\* that has started; whatever has been scheduled or fired since, the host can
\* still resolve the promise the callback awaits, and when summarize resolves
\* the callback destroys its session and writes its summary to the output.
C12_StartedWorkNotCancelable ==
  /\ [](\A i \in DOMAIN tasks :
          /\ tasks[i].pc = "capabilities" =>
               ENABLED TaskCapabilitiesResolves(i, "readily")
          /\ tasks[i].pc = "create" => ENABLED TaskCreateResolves(i)
          /\ tasks[i].pc = "summarize" => ENABLED TaskSummarizeResolves(i)
          /\ tasks[i].pc = "done" =>
               /\ tasks[i].calls
                    = << "capabilities", "create", "summarize", "destroy" >>
               /\ sessions[tasks[i].session].destroyed
               /\ tasks[i].summary = Summary(tasks[i].type, tasks[i].format,
                                             tasks[i].length, tasks[i].text))
  /\ [][\A i \in DOMAIN tasks :
          /\ (nextTimer' # nextTimer \/ Len(tasks') # Len(tasks)) =>
               /\ tasks'[i] = tasks[i]
               /\ sessions' = sessions
          /\ (tasks[i].pc = "summarize" /\ tasks'[i].pc = "done") =>
               /\ output' = tasks'[i].summary
               /\ sessions'[tasks[i].session].destroyed]_vars

\* A newer timer fired while the first callback was in flight; the first
\* callback has since destroyed its session and written its summary, the
\* second is still awaiting the host.
C12_Witness ==
  /\ Len(tasks) = 2
  /\ 1 \in tasks[2].inFlight
  /\ tasks[1].pc = "done"
  /\ tasks[2].pc \in {"capabilities", "create", "summarize"}
  /\ sessions[tasks[1].session].destroyed
  /\ output = tasks[1].summary

\* C13: every input event handled by the listener leaves the character
\* count at the length of the text and the over-limit indicator shown exactly
\* when that length is greater than 4000 (4000 itself is not over the limit),
\* whatever it showed before; it schedules a timer whether or not the text is
\* over the limit; no other step changes the count or the indicator.
C13_OverLimitIndicator ==
  [][/\ (listeners /\ inputText' # inputText) =>
          /\ characterCount' = Len(inputText')
          /\ exceededShown' = (Len(inputText') > MAX_MODEL_CHARS)
          /\ tokensExceeded' = (Len(inputText') > MAX_MODEL_CHARS)
          /\ Len(inputText') \in 0..MAX_MODEL_CHARS => ~exceededShown'
          /\ Len(inputText') >= MAX_MODEL_CHARS + 1 => exceededShown'
          /\ timeout' = nextTimer
          /\ \E t \in pendingTimers' :
               /\ t.id = nextTimer /\ t.elapsed = 0
               /\ t.event.text = inputText'
     /\ (~listeners \/ inputText' = inputText) => UNCHANGED countVars]_vars

\* A text of 4001 characters was typed, shown as over the limit, and
\* summarized all the same; the text was then cut to 4000 characters and the
\* indicator is hidden again.
C13_Witness ==
  /\ Len(tasks) = 1
  /\ tasks[1].event.text = LongText
  /\ Len(tasks[1].event.text) = MAX_MODEL_CHARS + 1
  /\ tasks[1].pc = "done"
  /\ inputText = LimitText
  /\ characterCount = MAX_MODEL_CHARS
  /\ ~exceededShown
  /\ ~tokensExceeded

\* C14: no guard on empty text: with the listeners attached, a change of the
\* type, format or length selector while the text area is empty sets the
\* debounce timer; a due timer can fire whatever the text; and when create
\* resolves while the text is empty a session exists and summarize is called
\* with the empty string.
C14_EmptyTextStillSummarized ==
  /\ [](/\ \A t \in pendingTimers :
             t.elapsed >= DEBOUNCE_MS => ENABLED TimerFires(t)
        /\ \A i \in DOMAIN tasks :
             tasks[i].pc = "create" => ENABLED TaskCreateResolves(i))
  /\ [][/\ (/\ listeners
            /\ inputText' = ""
            /\ << summaryType, summaryFormat, summaryLength >>'
                 # << summaryType, summaryFormat, summaryLength >>) =>
             /\ timeout' = nextTimer
             /\ \E t \in pendingTimers' :
                  /\ t.id = nextTimer /\ t.elapsed = 0
                  /\ t.event.text = ""
                  /\ t.event.length = summaryLength'
        /\ \A i \in DOMAIN tasks :
             (tasks[i].pc = "create" /\ tasks'[i].pc = "summarize"
                /\ inputText = "") =>
               /\ tasks'[i].text = ""
               /\ tasks'[i].calls = << "capabilities", "create", "summarize" >>
               /\ Len(sessions') = Len(sessions) + 1
               /\ tasks'[i].session = Len(sessions')]_vars

\* Only the length selector was changed, with no text present; the timer
\* fired, a session was created with the new length and summarize was called
\* with the empty string.
C14_Witness ==
  /\ events = 1
  /\ inputText = ""
  /\ summaryLength = "medium"
  /\ Len(tasks) = 1
  /\ tasks[1].event.text = ""
  /\ tasks[1].calls = << "capabilities", "create", "summarize" >>
  /\ tasks[1].text = ""
  /\ sessions = << [type |-> "key-points", format |-> "plain-text",
                    length |-> "medium", monitor |-> NoMonitor,
                    summarized |-> 1,
                    destroyed |-> FALSE] >>

\* C15: a timer set by a qualifying event eventually fires unless a further
\* qualifying event replaces it, and it fires once; and there is no
\* maximum-wait cap: as long as every qualifying event so far came less than
\* 1000ms after the previous one and the last one is less than 1000ms old, no
\* callback has started, however many events there have been.
C15_FiresOnceAfterQuietOnly ==
  /\ \A id \in 1..MaxEvents :
       (\E t \in pendingTimers : t.id = id)
         ~> \/ \E i \in DOMAIN tasks : tasks[i].timer = id
            \/ nextTimer > id + 1
  /\ [](/\ \A i, j \in DOMAIN tasks :
             i # j => tasks[i].timer # tasks[j].timer
        /\ (bursts <= 1 /\ sinceEvent < DEBOUNCE_MS) => tasks = << >>)

\* One qualifying event was handled and none followed: its timer has fired,
\* once, and a summarization attempt has started.
C15_Witness ==
  /\ initPc = "ready"
  /\ nextTimer = 2
  /\ pendingTimers = {}
  /\ Len(tasks) = 1
  /\ tasks[1].timer = 1
  /\ "capabilities" \in {tasks[1].calls[n] : n \in DOMAIN tasks[1].calls}

\* C16: the option values of a firing are those of the selectors at the
\* step the timer fires and never change afterwards; the text is read at the
\* step session creation resolves: the summarize call made there receives the
\* input text of that moment, on a session built from the firing's options.
C16_OptionsAtFiringTextAtCreate ==
  [][\A i \in DOMAIN tasks' :
       /\ i \notin DOMAIN tasks =>
            /\ tasks'[i].type = summaryType
            /\ tasks'[i].format = summaryFormat
            /\ tasks'[i].length = summaryLength
            /\ tasks'[i].session = NoSession
            /\ tasks'[i].calls = << "capabilities" >>
       /\ i \in DOMAIN tasks =>
            /\ tasks'[i].type = tasks[i].type
            /\ tasks'[i].format = tasks[i].format
            /\ tasks'[i].length = tasks[i].length
            /\ IF tasks[i].pc = "create" /\ tasks'[i].pc = "summarize"
                 THEN /\ tasks'[i].text = inputText
                      /\ tasks'[i].calls = Append(tasks[i].calls, "summarize")
                      /\ tasks'[i].session = Len(sessions) + 1
                      /\ Len(sessions') = Len(sessions) + 1
                      /\ sessions'[Len(sessions')].type = tasks[i].type
                      /\ sessions'[Len(sessions')].format = tasks[i].format
                      /\ sessions'[Len(sessions')].length = tasks[i].length
                 ELSE tasks'[i].text = tasks[i].text
    ]_vars

\* The text was edited and nothing else while session creation was pending:
\* summarize was called with the edited text on a session built from the
\* options of the firing.
C16_Witness ==
  /\ Len(tasks) = 1
  /\ tasks[1].pc = "summarize"
  /\ tasks[1].event.text = ""
  /\ tasks[1].text = "Hello world"
  /\ inputText = "Hello world"
  /\ events = 2
  /\ sessions[tasks[1].session].type = tasks[1].event.type
  /\ sessions[tasks[1].session].format = tasks[1].event.format
  /\ sessions[tasks[1].session].length = tasks[1].event.length

\* The host calls of callback i named op, by position in its log.
CallsOf(i, op) == {n \in DOMAIN tasks[i].calls : tasks[i].calls[n] = op}

\* C17: every session belongs to exactly one callback, which calls summarize
\* on it once and destroy at most once; destroy is called only in the step in
\* which that callback's summarize call resolves, so after a successful
\* summarize and never after a rejected one; and the summarize call is made
\* when the session is created, before any destroy of it.
C17_DestroyOnceAfterOwnSummarize ==
  /\ [](\A k \in DOMAIN sessions :
          /\ Cardinality(Owners(k)) = 1
          /\ \A i \in Owners(k) :
               /\ Cardinality(CallsOf(i, "summarize")) = 1
               /\ Cardinality(CallsOf(i, "destroy")) <= 1
               /\ sessions[k].destroyed <=> CallsOf(i, "destroy") # {}
               /\ sessions[k].destroyed =>
                    /\ tasks[i].pc = "done"
                    /\ tasks[i].error = ""
                    /\ Cardinality({n \in DOMAIN resolved : resolved[n] = i})
                         = 1
                    /\ \A d \in CallsOf(i, "destroy") :
                       \A m \in CallsOf(i, "summarize") : m < d)
  /\ [](\A i \in DOMAIN tasks :
          tasks[i].session = NoSession =>
            CallsOf(i, "summarize") \cup CallsOf(i, "destroy") = {})
  /\ [][\A i \in DOMAIN tasks :
          /\ Len(tasks'[i].calls) > Len(tasks[i].calls)
               /\ tasks'[i].calls[Len(tasks'[i].calls)] = "destroy"
               => /\ tasks[i].pc = "summarize"
                  /\ tasks'[i].pc = "done"
                  /\ ~sessions[tasks[i].session].destroyed
                  /\ sessions'[tasks[i].session].destroyed
          /\ Len(tasks'[i].calls) > Len(tasks[i].calls)
               /\ tasks'[i].calls[Len(tasks'[i].calls)] = "summarize"
               => /\ tasks'[i].session \notin DOMAIN sessions
                  /\ ~sessions'[tasks'[i].session].destroyed
     ]_vars

\* Two firings overlapped and the later one finished first: each destroyed
\* its own session once, after its own summarize call had resolved.
C17_Witness ==
  /\ Len(tasks) = 2
  /\ resolved = << 2, 1 >>
  /\ 1 \in tasks[2].inFlight
  /\ Len(sessions) = 2
  /\ tasks[1].session # tasks[2].session
  /\ \A k \in DOMAIN sessions : sessions[k].destroyed
  /\ \A i \in DOMAIN tasks :
       tasks[i].calls = << "capabilities", "create", "summarize", "destroy" >>

\* C18: every callback makes exactly one capabilities() query of its own, as
\* its first host call, after the single query of initializeApplication;
\* create is called at most once per callback, only in the step in which that
\* query resolves and only when it reported a tier other than 'no'; a callback
\* whose query reported 'no' never calls create.
C18_CreateOnlyAfterOwnQuery ==
  /\ [](\A i \in DOMAIN tasks :
          /\ CallsOf(i, "capabilities") = {1}
          /\ CallsOf(i, "create") \in {{}, {2}}
          /\ CallsOf(i, "create") # {} =>
               /\ ~tasks[i].unsupported
               /\ tasks[i].pc # "capabilities"
          /\ tasks[i].unsupported =>
               /\ CallsOf(i, "create") = {}
               /\ tasks[i].pc = "rejected"
               /\ tasks[i].session = NoSession
          /\ tasks[i].session # NoSession => CallsOf(i, "create") = {2})
  /\ [](tasks # << >> => initCalls = << "capabilities" >>)
  /\ [][\A i \in DOMAIN tasks :
          CallsOf(i, "create") = {} /\ tasks'[i].calls # tasks[i].calls
            => /\ tasks[i].pc = "capabilities"
               /\ tasks'[i].calls = Append(tasks[i].calls, "create")
               /\ tasks'[i].pc = "create"
               /\ ~tasks'[i].unsupported
     ]_vars

\* Two firings after one initialization: three availability queries were
\* made, one by initializeApplication and one by each firing before its create.
C18_Witness ==
  /\ initCalls = << "capabilities" >>
  /\ Len(tasks) = 2
  /\ \A i \in DOMAIN tasks :
       /\ tasks[i].calls[1] = "capabilities"
       /\ Len(tasks[i].calls) >= 2
       /\ tasks[i].calls[2] = "create"
  /\ tasks[1].pc = "create"
  /\ tasks[2].pc = "create"

\* C19: createSummarizationSession passes a monitor to create exactly when a
\* downloadProgressListener was supplied, and that monitor registers this
\* listener, and nothing else, for 'downloadprogress'; every session of the
\* debounce workflow was created with an undefined monitor.
C19_MonitorIffListener ==
  /\ \A l \in Listeners :
       /\ Monitor(l).defined <=> l # Undefined
       /\ Monitor(l).defined =>
            Monitor(l).registers = {<< "downloadprogress", l >>}
       /\ ~Monitor(l).defined => Monitor(l) = NoMonitor
  /\ \A k \in DOMAIN sessions :
       /\ ~sessions[k].monitor.defined
       /\ sessions[k].monitor.registers = {}
       /\ Owners(k) # {}

\* Two sessions created by timer callbacks exist, both created without a
\* monitor.
C19_Witness ==
  /\ Len(sessions) = 2
  /\ \A k \in DOMAIN sessions :
       /\ sessions[k].monitor = NoMonitor
       /\ \E i \in DOMAIN tasks :
            /\ tasks[i].session = k
            /\ tasks[i].timer # NoTimer
  /\ tasks[1].pc = "summarize"
  /\ tasks[2].pc = "summarize"

=============================================================================
